---------------------------- MODULE Spec2Model ----------------------------
(***************************************************************************)
(* Model of the FNOL claims processor (src/src/main.py): Response Repair   *)
(* (extract_json), Field Normalizer (normalize_extracted), Completeness    *)
(* Checker (completeness_agent), the three signal agents, the Routing      *)
(* Coordinator (decide_route) and the pipeline process_fnol.               *)
(*                                                                         *)
(* Text is modelled by TLA+ strings; a character is a string of length 1.  *)
(* A JSON leaf is a tagged record: Null, Str(s) or Num(n).  A section of   *)
(* an extracted record is Dict(f), f a function from field names to        *)
(* leaves, or a leaf (a section the oracle did not return as an object).   *)
(***************************************************************************)
EXTENDS Integers, Sequences, FiniteSets, TLC

VARIABLES
    pc,            \* position of the run
    raw,           \* run_llm's completion, a sequence of JSON tokens
    json_text,     \* what extract_json returned
    err,           \* the exception that ended the run, or "none"
    input,         \* the record as the extraction returned it
    once,          \* the record after its first normalization
    extracted,     \* the record the stages work on
    missing,       \* completeness_agent's list
    investigation, \* the three signals
    injury,
    fasttrack,
    answers,       \* what run_llm_bool did for each agent
    calls,         \* how often each agent called run_llm_bool
    output         \* process_fnol's final_output, or NoOutput

vars == <<pc, raw, json_text, err, input, once, extracted, missing,
          investigation, injury, fasttrack, answers, calls, output>>

---------------------------------------------------------------------------
(* Bounds of the model *)

\* longest generated string handed to clean_value
MaxStrLen == 3

\* longest generated completion handed to extract_json
MaxRawLen == 5

\* longest generated damage string handed to fasttrack_agent
MaxDmgLen == 4

\* most mandatory fields of a generated record that are not plainly filled in
MaxDeviating == 2

\* longest generated missing-field list handed to decide_route
MaxMissing == 2

---------------------------------------------------------------------------
(* Python's str, on TLA+ strings *)

Char(s, i) == SubSeq(s, i, i)

UpperAlpha == "ABCDEFGHIJKLMNOPQRSTUVWXYZ"
LowerAlpha == "abcdefghijklmnopqrstuvwxyz"
DigitChars == "0123456789"

CharsOf(s) == { Char(s, i) : i \in 1..Len(s) }

IsUpperChar(c) == c \in CharsOf(UpperAlpha)
IsLowerChar(c) == c \in CharsOf(LowerAlpha)
IsDigitChar(c) == c \in CharsOf(DigitChars)
\* the whitespace str.strip() and str.split() remove: blank, tab, newline
IsSpaceChar(c) == c \in {" ", "\t", "\n"}

\* str.lower() of one character
LowerChar(c) ==
    IF IsUpperChar(c)
    THEN Char(LowerAlpha, CHOOSE i \in 1..Len(UpperAlpha) : Char(UpperAlpha, i) = c)
    ELSE c

RECURSIVE PyLower(_)
\* str.lower()
PyLower(s) ==
    IF Len(s) = 0 THEN ""
    ELSE LowerChar(Char(s, 1)) \o PyLower(SubSeq(s, 2, Len(s)))

RECURSIVE LStrip(_)
LStrip(s) ==
    IF Len(s) > 0 /\ IsSpaceChar(Char(s, 1)) THEN LStrip(SubSeq(s, 2, Len(s))) ELSE s

RECURSIVE RStrip(_)
RStrip(s) ==
    IF Len(s) > 0 /\ IsSpaceChar(Char(s, Len(s)))
    THEN RStrip(SubSeq(s, 1, Len(s) - 1)) ELSE s

\* str.strip()
PyStrip(s) == RStrip(LStrip(s))

\* str.isupper(): at least one cased character and no lower-case one
PyIsUpper(s) ==
    /\ \E i \in 1..Len(s) : IsUpperChar(Char(s, i))
    /\ \A i \in 1..Len(s) : ~IsLowerChar(Char(s, i))

\* len(s.split()): the number of maximal runs of non-whitespace characters
SplitCount(s) ==
    Cardinality({ i \in 1..Len(s) :
                    /\ ~IsSpaceChar(Char(s, i))
                    /\ (i = 1 \/ IsSpaceChar(Char(s, i - 1))) })

\* w in text
PyContains(text, w) ==
    \E i \in 1..(Len(text) - Len(w) + 1) : SubSeq(text, i, i + Len(w) - 1) = w

RECURSIVE StringsOver(_, _)
\* every string over the characters `alphabet` of length at most n
StringsOver(alphabet, n) ==
    IF n = 0 THEN {""}
    ELSE LET shorter == StringsOver(alphabet, n - 1)
         IN  shorter \cup { s \o c : s \in shorter, c \in alphabet }

---------------------------------------------------------------------------
(* JSON values *)

Null == [t |-> "null"]
Str(s) == [t |-> "str", s |-> s]
Num(n) == [t |-> "num", n |-> n]
Dict(f) == [t |-> "dict", d |-> f]

IsStr(v) == v.t = "str"
IsDict(v) == v.t = "dict"

NoRecord == [t |-> "norecord"]
NoOutput == [t |-> "nooutput"]

---------------------------------------------------------------------------
(* Field Normalizer: normalize_extracted, main.py 139-168 *)

form_labels ==
    { "policy number", "policy_number", "insured", "date of loss", "time of loss",
      "location of loss", "description of accident", "description of loss",
      "name of claimant", "contact details", "type of asset", "asset_id",
      "estimated damage", "estimate amount", "claim_type", "insurance claim",
      "insured vehicle", "primary e-mail address", "secondary e-mail address",
      "other vehicle / property damaged", "veh", "date of effective",
      "effective start date", "effective end date", "third parties",
      "attachments", "initial estimate", "initial_estimate" }

\* a clean_value that trims what it keeps and measures the untrimmed length
clean_value_trimming(v) ==
    IF v = Null THEN Null
    ELSE IF IsStr(v)
    THEN LET val == PyLower(PyStrip(v.s))
         IN  IF val \in form_labels \/ Len(v.s) < 2 THEN Null
             ELSE IF PyIsUpper(PyStrip(v.s)) /\ SplitCount(PyStrip(v.s)) <= 3 THEN Null
             ELSE Str(PyStrip(v.s))
    ELSE v

clean_value(v) ==
    IF v = Null THEN Null
    ELSE IF IsStr(v)
    THEN LET val == PyLower(PyStrip(v.s))
         IN  IF val \in form_labels \/ Len(val) < 2 THEN Null
             ELSE IF PyIsUpper(PyStrip(v.s)) /\ SplitCount(PyStrip(v.s)) <= 3 THEN Null
             ELSE v
    ELSE v

normalize_extracted(rec) ==
    [section \in DOMAIN rec |->
        IF IsDict(rec[section])
        THEN Dict([key \in DOMAIN rec[section].d |-> clean_value(rec[section].d[key])])
        ELSE rec[section]]

---------------------------------------------------------------------------
(* The oracle's yes/no query: run_llm_bool, main.py 35-48 *)

\* "yes", "no", "unknown": run_llm_bool returned True, False, None;
\* "raise": the call llm(...) raised (run_llm_bool catches nothing)
OracleAnswers == {"yes", "no", "unknown", "raise"}

\* an agent that did not call run_llm_bool
NotAsked == "none"

Agents == {"completeness", "investigation", "injury", "fasttrack"}

---------------------------------------------------------------------------
(* Completeness Checker: completeness_agent, main.py 171-203 *)

mandatory ==
    << "Policy Number", "Policyholder Name", "Effective Dates",
       "Date", "Time", "Location", "Description",
       "Claimant", "Third Parties", "Contact Details",
       "Asset Type", "Asset ID", "Estimated Damage",
       "Claim Type", "Attachments", "Initial Estimate" >>

\* the order in which the extraction prompt lists the sections (main.py 94-121)
SectionOrder ==
    << "Policy Information", "Incident Information", "Involved Parties",
       "Asset Details", "Other Mandatory Fields" >>

\* the schema of the extraction prompt: the fields of each section
SectionFields ==
    [s \in {SectionOrder[i] : i \in 1..Len(SectionOrder)} |->
        CASE s = "Policy Information" ->
                {"Policy Number", "Policyholder Name", "Effective Dates"}
          [] s = "Incident Information" ->
                {"Date", "Time", "Location", "Description"}
          [] s = "Involved Parties" ->
                {"Claimant", "Third Parties", "Contact Details"}
          [] s = "Asset Details" ->
                {"Asset Type", "Asset ID", "Estimated Damage"}
          [] s = "Other Mandatory Fields" ->
                {"Claim Type", "Attachments", "Initial Estimate"}]

\* flat.get(f) of main.py 191-199: the value of key f in the last section
\* (in the record's order) that is a dict and has it, None when there is none
FlatGet(rec, f) ==
    LET holders == { i \in 1..Len(SectionOrder) :
                        /\ SectionOrder[i] \in DOMAIN rec
                        /\ IsDict(rec[SectionOrder[i]])
                        /\ f \in DOMAIN rec[SectionOrder[i]].d }
    IN  IF holders = {} THEN Null
        ELSE LET last == CHOOSE i \in holders : \A j \in holders : j <= i
             IN  rec[SectionOrder[last]].d[f]

\* a test that compares with "" without stripping
IsMissingValue_nostrip(v) == v = Null \/ (IsStr(v) /\ v.s = "")

\* main.py 200: v is None or (isinstance(v, str) and v.strip() == "")
IsMissingValue(v) == v = Null \/ (IsStr(v) /\ PyStrip(v.s) = "")

\* a completeness_agent that takes the oracle's YES for "nothing is missing"
completeness_agent_trusting(rec, ans) ==
    IF ans = "yes" THEN <<>>
    ELSE SelectSeq(mandatory, LAMBDA f : IsMissingValue(FlatGet(rec, f)))

\* the list completeness_agent returns; ans is what run_llm_bool returned,
\* assigned to _ and not read (main.py 188)
completeness_agent(rec, ans) ==
    SelectSeq(mandatory, LAMBDA f : IsMissingValue(FlatGet(rec, f)))

---------------------------------------------------------------------------
(* Signal agents, main.py 206-283 *)

\* Python's truth value of a leaf: None, "" and 0 are false
Truthy(v) ==
    CASE v = Null -> FALSE
      [] IsStr(v) -> v.s # ""
      [] v.t = "num" -> v.n # 0
      [] OTHER -> TRUE

\* str(v) of a leaf that is a string; a number's str() has digits only
PyStr(v) == IF IsStr(v) THEN v.s ELSE ""

investigation_keywords == <<"fraud", "inconsistent", "staged">>

\* main.py 208: description and len(description) > 10
investigation_asks(description) ==
    Truthy(description) /\ Len(description.s) > 10

\* a keyword search that does not lower-case the description
investigation_fallback_cased(description) ==
    IF ~Truthy(description) THEN FALSE
    ELSE \E k \in 1..Len(investigation_keywords) :
            PyContains(description.s, investigation_keywords[k])

\* main.py 219-227
investigation_fallback(description) ==
    IF ~Truthy(description) THEN FALSE
    ELSE LET text == PyLower(description.s)
         IN  \E k \in 1..Len(investigation_keywords) :
                PyContains(text, investigation_keywords[k])

\* main.py 206-227, for an answer run_llm_bool returned
investigation_agent(description, ans) ==
    IF investigation_asks(description) /\ ans \in {"yes", "no"}
    THEN ans = "yes"
    ELSE investigation_fallback(description)

\* extracted.get(section, {}).get(field), on a record whose sections are dicts
GetField(rec, section, field) ==
    IF section \in DOMAIN rec /\ field \in DOMAIN rec[section].d
    THEN rec[section].d[field]
    ELSE Null

\* an injury_agent that asks the oracle only when there is a claim type
injury_asks_claim_only(claim_type, desc) == Truthy(claim_type)

\* main.py 235: claim_type or desc
injury_asks(claim_type, desc) == Truthy(claim_type) \/ Truthy(desc)

\* main.py 246-250
injury_fallback(claim_type) ==
    IF ~Truthy(claim_type) THEN FALSE
    ELSE PyContains(PyLower(PyStr(claim_type)), "injury")

\* main.py 230-250, for an answer run_llm_bool returned
injury_agent(rec, ans) ==
    LET claim_type == GetField(rec, "Other Mandatory Fields", "Claim Type")
        desc == GetField(rec, "Incident Information", "Description")
    IN  IF injury_asks(claim_type, desc) /\ ans \in {"yes", "no"}
        THEN ans = "yes"
        ELSE injury_fallback(claim_type)

FastTrackThreshold == 25000

\* the decimal digits of 1 - 2^-39.  The doubles of [16384, 32768) are 2^-38
\* apart and 25000 is one of them, with an even significand: float() rounds to
\* the nearest double, ties to even, so the decimals that convert to a double
\* below 25000 are exactly those below 25000 - 2^-39
HalfUlpBelowOne == "999999999998181010596454143524169921875"

DigitOf(c) == (CHOOSE i \in 1..Len(DigitChars) : Char(DigitChars, i) = c) - 1

RECURSIVE DigitsValue(_)
\* the number a run of digits denotes; from 100000 on the value is kept as
\* it is, which no comparison with FastTrackThreshold can tell apart
DigitsValue(s) ==
    IF Len(s) = 0 THEN 0
    ELSE LET v == DigitsValue(SubSeq(s, 1, Len(s) - 1))
         IN  IF v >= 100000 THEN v ELSE 10 * v + DigitOf(Char(s, Len(s)))

RECURSIVE DecimalLess(_, _)
\* 0.a < 0.b for two runs of digits
DecimalLess(a, b) ==
    IF Len(a) = 0 /\ Len(b) = 0 THEN FALSE
    ELSE LET da == IF Len(a) = 0 THEN 0 ELSE DigitOf(Char(a, 1))
             db == IF Len(b) = 0 THEN 0 ELSE DigitOf(Char(b, 1))
         IN  IF da # db THEN da < db
             ELSE DecimalLess(SubSeq(a, 2, Len(a)), SubSeq(b, 2, Len(b)))

RECURSIVE RemoveCommas(_)
\* s.replace(",", "")
RemoveCommas(s) ==
    IF Len(s) = 0 THEN ""
    ELSE (IF Char(s, 1) = "," THEN "" ELSE Char(s, 1))
            \o RemoveCommas(SubSeq(s, 2, Len(s)))

\* the last index of the run of digits of s that starts at i
DigitRunEnd(s, i) ==
    CHOOSE j \in i..Len(s) :
        /\ \A k \in i..j : IsDigitChar(Char(s, k))
        /\ (j = Len(s) \/ ~IsDigitChar(Char(s, j + 1)))

\* re.findall(r"[0-9]+(?:\.[0-9]+)?", s)[0]: the leftmost match, its integer
\* digits ip and its fraction digits fp ("" without the optional group)
FirstNumber(s) ==
    LET starts == { i \in 1..Len(s) : IsDigitChar(Char(s, i)) }
    IN  IF starts = {} THEN [found |-> FALSE, ip |-> "", fp |-> ""]
        ELSE LET i == CHOOSE x \in starts : \A y \in starts : x <= y
                 j == DigitRunEnd(s, i)
                 frac == /\ j + 2 <= Len(s)
                         /\ Char(s, j + 1) = "."
                         /\ IsDigitChar(Char(s, j + 2))
             IN  [found |-> TRUE,
                  ip |-> SubSeq(s, i, j),
                  fp |-> IF frac THEN SubSeq(s, j + 2, DigitRunEnd(s, j + 2)) ELSE ""]

\* float(ip.fp) < 25000 (main.py 280-281), float() being correctly rounded
FloatBelowThreshold(ip, fp) ==
    LET n == DigitsValue(ip)
    IN  \/ n < FastTrackThreshold - 1
        \/ n = FastTrackThreshold - 1 /\ DecimalLess(fp, HalfUlpBelowOne)

\* main.py 258: if dmg
fasttrack_asks(dmg) == Truthy(dmg)

\* a fallback that searches the string with its commas left in
fasttrack_fallback_keepcommas(dmg) ==
    IF dmg = Null THEN FALSE
    ELSE IF dmg.t = "num" THEN dmg.n < FastTrackThreshold
    ELSE LET m == FirstNumber(PyStr(dmg))
         IN  m.found /\ FloatBelowThreshold(m.ip, m.fp)

\* main.py 267-283
fasttrack_fallback(dmg) ==
    IF dmg = Null THEN FALSE
    ELSE IF dmg.t = "num" THEN dmg.n < FastTrackThreshold
    ELSE LET m == FirstNumber(RemoveCommas(PyStr(dmg)))
         IN  m.found /\ FloatBelowThreshold(m.ip, m.fp)

\* main.py 253-283, for an answer run_llm_bool returned
fasttrack_agent(rec, ans) ==
    LET dmg == GetField(rec, "Asset Details", "Estimated Damage")
    IN  IF fasttrack_asks(dmg) /\ ans \in {"yes", "no"}
        THEN ans = "yes"
        ELSE fasttrack_fallback(dmg)

---------------------------------------------------------------------------
(* Routing Coordinator: decide_route, main.py 290-309 *)

RECURSIVE JoinComma(_)
\* ', '.join(list)
JoinComma(list) ==
    IF Len(list) = 0 THEN ""
    ELSE IF Len(list) = 1 THEN list[1]
    ELSE list[1] \o ", " \o JoinComma(Tail(list))

\* a coordinator that tests the fast-track rule before the injury rule
decide_route_fast_first(rec, miss, inv, inj, fast) ==
    IF inv
    THEN [route |-> "Investigation Flag",
          reasoning |-> "Description contains investigation-related keywords."]
    ELSE IF Len(miss) > 0
    THEN [route |-> "Manual review",
          reasoning |-> "Mandatory fields missing: " \o JoinComma(miss) \o "."]
    ELSE IF fast
    THEN [route |-> "Fast-track", reasoning |-> "Estimated damage is below 25,000."]
    ELSE IF inj
    THEN [route |-> "Specialist Queue", reasoning |-> "Claim type indicates injury."]
    ELSE [route |-> "Manual review",
          reasoning |-> "No routing rule matched confidently."]

\* a coordinator that tests the injury rule before the missing-field rule
decide_route_injury_first(rec, miss, inv, inj, fast) ==
    IF inv
    THEN [route |-> "Investigation Flag",
          reasoning |-> "Description contains investigation-related keywords."]
    ELSE IF inj
    THEN [route |-> "Specialist Queue", reasoning |-> "Claim type indicates injury."]
    ELSE IF Len(miss) > 0
    THEN [route |-> "Manual review",
          reasoning |-> "Mandatory fields missing: " \o JoinComma(miss) \o "."]
    ELSE IF fast
    THEN [route |-> "Fast-track", reasoning |-> "Estimated damage is below 25,000."]
    ELSE [route |-> "Manual review",
          reasoning |-> "No routing rule matched confidently."]

decide_route(rec, miss, inv, inj, fast) ==
    IF inv
    THEN [route |-> "Investigation Flag",
          reasoning |-> "Description contains investigation-related keywords."]
    ELSE IF Len(miss) > 0
    THEN [route |-> "Manual review",
          reasoning |-> "Mandatory fields missing: " \o JoinComma(miss) \o "."]
    ELSE IF inj
    THEN [route |-> "Specialist Queue", reasoning |-> "Claim type indicates injury."]
    ELSE IF fast
    THEN [route |-> "Fast-track", reasoning |-> "Estimated damage is below 25,000."]
    ELSE [route |-> "Manual review",
          reasoning |-> "No routing rule matched confidently."]

---------------------------------------------------------------------------
(* Response Repair: extract_json, main.py 51-66.                            *)
(* The completion is a string of JSON tokens, one character each:           *)
(*   "{" "}" ","  the punctuation;   "k" a key with its colon ("a":);       *)
(*   "v" a scalar value;   " " whitespace;   "x" any other text (prose,     *)
(*   a fence, a comment).                                                   *)

JsonAlphabet == {"{", "}", ",", "k", "v", " ", "x"}

\* text.find(c) and text.rfind(c), 1-based, 0 for Python's -1
Find(text, c) ==
    LET at == { i \in 1..Len(text) : Char(text, i) = c }
    IN  IF at = {} THEN 0 ELSE CHOOSE i \in at : \A j \in at : i <= j

RFind(text, c) ==
    LET at == { i \in 1..Len(text) : Char(text, i) = c }
    IN  IF at = {} THEN 0 ELSE CHOOSE i \in at : \A j \in at : j <= i

\* text[a:b+1] for 1-based a, b: empty when b < a
Slice(text, a, b) == IF b < a THEN "" ELSE SubSeq(text, a, b)

\* the first index from i on that holds no whitespace, Len + 1 when none does
SkipWs(s, i) ==
    LET rest == { j \in i..Len(s) : Char(s, j) # " " }
    IN  IF rest = {} THEN Len(s) + 1 ELSE CHOOSE j \in rest : \A k \in rest : j <= k

RECURSIVE ParseObject(_, _), ParseMembers(_, _), ParseValue(_, _)
\* json's scanner on a value at i: the index after the value, 0 for a
\* JSONDecodeError
ParseValue(s, i) ==
    IF i > Len(s) THEN 0
    ELSE IF Char(s, i) = "v" THEN i + 1
    ELSE IF Char(s, i) = "{" THEN ParseObject(s, i)
    ELSE 0

\* the members of an object from a key at j on, to the closing brace
ParseMembers(s, j) ==
    IF j > Len(s) \/ Char(s, j) # "k" THEN 0
    ELSE LET e == ParseValue(s, SkipWs(s, j + 1))
             b == SkipWs(s, e)
         IN  IF e = 0 \/ b > Len(s) THEN 0
             ELSE IF Char(s, b) = "}" THEN b + 1
             ELSE IF Char(s, b) = "," THEN ParseMembers(s, SkipWs(s, b + 1))
             ELSE 0

\* an object whose opening brace is at i
ParseObject(s, i) ==
    LET j == SkipWs(s, i + 1)
    IN  IF j > Len(s) THEN 0
        ELSE IF Char(s, j) = "}" THEN j + 1
        ELSE ParseMembers(s, j)

RECURSIVE Dumps(_)
\* json.dumps of the object parsed from the span s: the tokens of s with the
\* default separators, one blank after each colon and each comma, none else
Dumps(s) ==
    IF Len(s) = 0 THEN ""
    ELSE LET c == Char(s, 1)
             rest == Dumps(SubSeq(s, 2, Len(s)))
         IN  IF c = " " THEN rest
             ELSE IF c \in {"k", ","} THEN c \o " " \o rest
             ELSE c \o rest

\* json.loads(s) succeeds: one value, whitespace around it, nothing else
LoadsOk(s) ==
    LET e == ParseValue(s, SkipWs(s, 1))
    IN  e # 0 /\ SkipWs(s, e) = Len(s) + 1

NoJsonFound == "No JSON found in LLM output"
NoClosingBrace == "No closing brace found"

\* an extract_json that slices to the first closing brace
extract_json_first_close(text) ==
    LET start == Find(text, "{")
    IN  IF start = 0 THEN [ok |-> FALSE, error |-> NoJsonFound, text |-> ""]
        ELSE LET e == ParseObject(text, start)
             IN  IF e # 0
                 THEN [ok |-> TRUE, error |-> "none",
                       text |-> Dumps(SubSeq(text, start, e - 1))]
                 ELSE LET end == Find(text, "}")
                      IN  IF end = 0
                          THEN [ok |-> FALSE, error |-> NoClosingBrace, text |-> ""]
                          ELSE [ok |-> TRUE, error |-> "none",
                                text |-> Slice(text, start, end)]

extract_json(text) ==
    LET start == Find(text, "{")
    IN  IF start = 0 THEN [ok |-> FALSE, error |-> NoJsonFound, text |-> ""]
        ELSE LET e == ParseObject(text, start)
             IN  IF e # 0
                 THEN [ok |-> TRUE, error |-> "none",
                       text |-> Dumps(SubSeq(text, start, e - 1))]
                 ELSE LET end == RFind(text, "}")
                      IN  IF end = 0
                          THEN [ok |-> FALSE, error |-> NoClosingBrace, text |-> ""]
                          ELSE [ok |-> TRUE, error |-> "none",
                                text |-> Slice(text, start, end)]

---------------------------------------------------------------------------
(* The steps of a run *)

NoAnswers == [a \in Agents |-> NotAsked]
NoCalls == [a \in Agents |-> 0]

\* a run at position p that has done nothing yet
Fresh(p) ==
    /\ pc = p
    /\ json_text = ""
    /\ err = "none"
    /\ once = NoRecord
    /\ missing = <<>>
    /\ investigation = FALSE
    /\ injury = FALSE
    /\ fasttrack = FALSE
    /\ answers = NoAnswers
    /\ calls = NoCalls
    /\ output = NoOutput

\* the call run_llm_bool(prompt) of agent a, answered by ans
OracleCall(a, ans) ==
    /\ answers' = [answers EXCEPT ![a] = ans]
    /\ calls' = [calls EXCEPT ![a] = @ + 1]

\* extraction_agent, main.py 136: extract_json(raw)
ExtractJson ==
    /\ pc = "repair"
    /\ LET r == extract_json(raw)
       IN  IF r.ok
           THEN pc' = "loads" /\ json_text' = r.text /\ err' = err
           ELSE pc' = "aborted" /\ json_text' = json_text /\ err' = r.error
    /\ UNCHANGED <<raw, input, once, extracted, missing, investigation, injury,
                   fasttrack, answers, calls, output>>

\* extraction_agent, main.py 136: json.loads of what extract_json returned
JsonLoads ==
    /\ pc = "loads"
    /\ IF LoadsOk(json_text)
       THEN /\ pc' = "normalize"
            /\ extracted' = [t |-> "parsed", text |-> json_text]
            /\ err' = err
       ELSE /\ pc' = "aborted"
            /\ extracted' = extracted
            /\ err' = "JSONDecodeError"
    /\ input' = extracted'
    /\ UNCHANGED <<raw, json_text, once, missing, investigation, injury,
                   fasttrack, answers, calls, output>>

\* process_fnol, main.py 321
NormalizeExtracted ==
    /\ pc = "normalize"
    /\ extracted' = normalize_extracted(extracted)
    /\ once' = extracted'
    /\ pc' = "completeness"
    /\ UNCHANGED <<raw, json_text, err, input, missing, investigation, injury,
                   fasttrack, answers, calls, output>>

\* normalize_extracted called on a record it has normalized
NormalizeAgain ==
    /\ pc = "completeness"
    /\ extracted' = normalize_extracted(extracted)
    /\ pc' = "renormalized"
    /\ UNCHANGED <<raw, json_text, err, input, once, missing, investigation,
                   injury, fasttrack, answers, calls, output>>

\* process_fnol, main.py 323
CompletenessAgent ==
    /\ pc = "completeness"
    /\ \E ans \in OracleAnswers :
        /\ OracleCall("completeness", ans)
        /\ IF ans = "raise"
           THEN pc' = "aborted" /\ err' = "oracle" /\ missing' = missing
           ELSE /\ pc' = "investigation"
                /\ err' = err
                /\ missing' = completeness_agent(extracted, ans)
    /\ UNCHANGED <<raw, json_text, input, once, extracted, investigation, injury,
                   fasttrack, output>>

\* process_fnol, main.py 325-331
InvestigationAgent ==
    /\ pc = "investigation"
    /\ LET description == GetField(extracted, "Incident Information", "Description")
       IN  IF investigation_asks(description)
           THEN \E ans \in OracleAnswers :
                 /\ OracleCall("investigation", ans)
                 /\ IF ans = "raise"
                    THEN /\ pc' = "aborted"
                         /\ err' = "oracle"
                         /\ investigation' = investigation
                    ELSE /\ pc' = "injury"
                         /\ err' = err
                         /\ investigation' = investigation_agent(description, ans)
           ELSE /\ pc' = "injury"
                /\ investigation' = investigation_agent(description, NotAsked)
                /\ UNCHANGED <<answers, calls, err>>
    /\ UNCHANGED <<raw, json_text, input, once, extracted, missing, injury,
                   fasttrack, output>>

\* process_fnol, main.py 332
InjuryAgent ==
    /\ pc = "injury"
    /\ IF injury_asks(GetField(extracted, "Other Mandatory Fields", "Claim Type"),
                      GetField(extracted, "Incident Information", "Description"))
       THEN \E ans \in OracleAnswers :
             /\ OracleCall("injury", ans)
             /\ IF ans = "raise"
                THEN pc' = "aborted" /\ err' = "oracle" /\ injury' = injury
                ELSE /\ pc' = "fasttrack"
                     /\ err' = err
                     /\ injury' = injury_agent(extracted, ans)
       ELSE /\ pc' = "fasttrack"
            /\ injury' = injury_agent(extracted, NotAsked)
            /\ UNCHANGED <<answers, calls, err>>
    /\ UNCHANGED <<raw, json_text, input, once, extracted, missing, investigation,
                   fasttrack, output>>

\* process_fnol, main.py 333
FasttrackAgent ==
    /\ pc = "fasttrack"
    /\ IF fasttrack_asks(GetField(extracted, "Asset Details", "Estimated Damage"))
       THEN \E ans \in OracleAnswers :
             /\ OracleCall("fasttrack", ans)
             /\ IF ans = "raise"
                THEN pc' = "aborted" /\ err' = "oracle" /\ fasttrack' = fasttrack
                ELSE /\ pc' = "route"
                     /\ err' = err
                     /\ fasttrack' = fasttrack_agent(extracted, ans)
       ELSE /\ pc' = "route"
            /\ fasttrack' = fasttrack_agent(extracted, NotAsked)
            /\ UNCHANGED <<answers, calls, err>>
    /\ UNCHANGED <<raw, json_text, input, once, extracted, missing, investigation,
                   injury, output>>

\* process_fnol, main.py 335-350
DecideRoute ==
    /\ pc = "route"
    /\ LET r == decide_route(extracted, missing, investigation, injury, fasttrack)
       IN  output' = [extractedFields |-> extracted,
                      missingFields |-> missing,
                      recommendedRoute |-> r.route,
                      reasoning |-> r.reasoning]
    /\ pc' = "done"
    /\ UNCHANGED <<raw, json_text, err, input, once, extracted, missing,
                   investigation, injury, fasttrack, answers, calls>>

---------------------------------------------------------------------------
(* The inputs of the runs *)

FieldSet == { mandatory[i] : i \in 1..Len(mandatory) }

\* a key the record does not have
Absent == [t |-> "absent"]

\* a field that is plainly filled in
Filled == Str("on file")

\* the record of the prompt's schema with the leaves vals, less the absent keys
MakeRecord(vals) ==
    [s \in DOMAIN SectionFields |->
        Dict([f \in { g \in SectionFields[s] : vals[g] # Absent } |-> vals[f]])]

\* leaves handed to clean_value: the strings of length up to n over an upper-case letter, a
\* lower-case letter, a blank and a digit, and captions and values of forms
NormStrings(n) ==
    StringsOver({"P", "o", " ", "8"}, n)
        \cup { "POLICY NUMBER", "Policy Number", "POL-88271", "pol-88271",
               " veh ", "Jane Doe", "A B C D", "12 MAIN ST", "$5,000" }

NormValues(n) == {Null, Num(0), Num(25000)} \cup { Str(s) : s \in NormStrings(n) }

\* records handed to normalize_extracted: one leaf (the shape of the label
\* example), and two leaves beside a section that is no dict
NormRecords(n) ==
    { [s \in {"Policy Information"} |-> Dict([f \in {"Policy Number"} |-> v])] :
        v \in NormValues(n) }
    \cup
    { [s \in {"Policy Information", "Incident Information"} |->
        IF s = "Policy Information"
        THEN Dict([f \in {"Policy Number", "Policyholder Name"} |->
                     IF f = "Policy Number" THEN v ELSE w])
        ELSE Str("INSURED")] :
        v \in NormValues(n), w \in {Null, Str("VEH"), Str("Jane Doe"), Num(7)} }

\* leaves of a field that is not plainly filled in
DeviatingValues == {Null, Absent, Str(""), Str(" \t"), Num(0)}

\* rec is a record handed to completeness_agent: at most n fields deviate
CompletenessRecord(rec, n) ==
    \E D \in { D \in SUBSET FieldSet : Cardinality(D) <= n } :
        \E st \in [D -> DeviatingValues] :
            rec = MakeRecord([f \in FieldSet |-> IF f \in D THEN st[f] ELSE Filled])

\* damage values handed to fasttrack_agent, the generated strings up to length n
DamageStrings(n) ==
    StringsOver({"2", "5", "0", ",", "."}, n)
        \cup { "24999", "25000", "$25,000.00", "5,000 USD", "24,999.99",
               "25000.01", "024999.5", "USD 30,000", "no estimate",
               "24999.99999999999", "24999.999999999999" }

DamageValues(n) ==
    {Null, Num(0), Num(24999), Num(25000), Num(30000)}
        \cup { Str(s) : s \in DamageStrings(n) }

FasttrackRecords(n) ==
    { [s \in {"Asset Details"} |-> Dict([f \in {"Estimated Damage"} |-> v])] :
        v \in DamageValues(n) }
    \cup { [s \in {"Policy Information"} |-> Dict([f \in {"Policy Number"} |-> Filled])] }

RECURSIVE SubLists(_, _)
\* the lists of at most n fields, each a sublist of mandatory from index i on
SubLists(i, n) ==
    IF i > Len(mandatory) \/ n = 0 THEN {<<>>}
    ELSE SubLists(i + 1, n)
            \cup { <<mandatory[i]>> \o l : l \in SubLists(i + 1, n - 1) }

\* the records a run of process_fnol starts from
PipelineRecords ==
    { MakeRecord([f \in FieldSet |->
        CASE f = "Description" -> d
          [] f = "Claim Type" -> c
          [] f = "Estimated Damage" -> e
          [] f = "Policy Number" -> p
          [] f = "Attachments" -> a
          [] OTHER -> Filled]) :
        d \in {Null, Str("fraud"), Str("FRAUD"), Str("Hit a pole"),
               Str("Staged crash"), Str("Rear-ended at a stop light")},
        c \in {Null, Str("Bodily Injury Claim"), Str("Collision")},
        e \in {Null, Num(0), Num(24999), Str("$5,000"), Str("25000"),
               Str("5,000 USD"), Str("24999.999999999999")},
        p \in {Null, Str("POL-88271"), Str("pol-88271")},
        a \in {Null, Str("photos.zip")} }

---------------------------------------------------------------------------
(* Specifications *)

\* process_fnol from the record the extraction returned (main.py 321-350)
Init ==
    /\ Fresh("normalize")
    /\ raw = ""
    /\ extracted \in PipelineRecords
    /\ input = extracted

Next ==
    \/ NormalizeExtracted
    \/ CompletenessAgent
    \/ InvestigationAgent
    \/ InjuryAgent
    \/ FasttrackAgent
    \/ DecideRoute

Spec == Init /\ [][Next]_vars

\* extraction_agent on every completion of run_llm (main.py 135-136)
InitRepair ==
    /\ Fresh("repair")
    /\ raw \in StringsOver(JsonAlphabet, MaxRawLen)
    /\ extracted = NoRecord
    /\ input = NoRecord

NextRepair == ExtractJson \/ JsonLoads

SpecRepair == InitRepair /\ [][NextRepair]_vars

\* normalize_extracted on every record of NormRecords, and once more on its result
InitNorm ==
    /\ Fresh("normalize")
    /\ raw = ""
    /\ extracted \in NormRecords(MaxStrLen)
    /\ input = extracted

NextNorm == NormalizeExtracted \/ NormalizeAgain

SpecNorm == InitNorm /\ [][NextNorm]_vars

\* completeness_agent on every record with at most MaxDeviating deviating fields
InitComplete ==
    /\ Fresh("completeness")
    /\ raw = ""
    /\ CompletenessRecord(extracted, MaxDeviating)
    /\ input = extracted

NextComplete == CompletenessAgent

SpecComplete == InitComplete /\ [][NextComplete]_vars

\* fasttrack_agent on every damage value of DamageValues
InitFast ==
    /\ Fresh("fasttrack")
    /\ raw = ""
    /\ extracted \in FasttrackRecords(MaxDmgLen)
    /\ input = extracted

NextFast == FasttrackAgent

SpecFast == InitFast /\ [][NextFast]_vars

\* decide_route on every list of SubLists and every three signals
InitRoute ==
    /\ pc = "route"
    /\ raw = ""
    /\ json_text = ""
    /\ err = "none"
    /\ once = NoRecord
    /\ extracted = MakeRecord([f \in FieldSet |-> Filled])
    /\ input = extracted
    /\ missing \in SubLists(1, MaxMissing)
    /\ investigation \in BOOLEAN
    /\ injury \in BOOLEAN
    /\ fasttrack \in BOOLEAN
    /\ answers = NoAnswers
    /\ calls = NoCalls
    /\ output = NoOutput

NextRoute == DecideRoute

SpecRoute == InitRoute /\ [][NextRoute]_vars

---------------------------------------------------------------------------
(* What the claims say, in terms of their own *)

\* the place of a field in the canonical order
CanonicalIndex(f) == CHOOSE i \in 1..Len(mandatory) : mandatory[i] = f

\* the leaf of field f in a record of the schema, wherever it is; None if nowhere
LeafOf(rec, f) ==
    IF \E s \in DOMAIN rec : IsDict(rec[s]) /\ f \in DOMAIN rec[s].d
    THEN LET s == CHOOSE s \in DOMAIN rec : IsDict(rec[s]) /\ f \in DOMAIN rec[s].d
         IN  rec[s].d[f]
    ELSE Null

\* null, or a string of whitespace only
IsBlankLeaf(v) ==
    v = Null \/ (IsStr(v) /\ \A i \in 1..Len(v.s) : Char(v.s, i) \in {" ", "\t", "\n"})

\* list holds fields in strictly ascending canonical order
InCanonicalOrder(list) ==
    /\ \A i \in 1..Len(list) : list[i] \in FieldSet
    /\ \A i, j \in 1..Len(list) :
         i < j => CanonicalIndex(list[i]) < CanonicalIndex(list[j])

\* list holds exactly the blank fields of rec, in canonical order
IsBlankFieldList(list, rec) ==
    /\ InCanonicalOrder(list)
    /\ { list[i] : i \in 1..Len(list) } = { f \in FieldSet : IsBlankLeaf(LeafOf(rec, f)) }

RECURSIVE SplitCommaSpace(_)
\* the pieces of s between its separators ", "
SplitCommaSpace(s) ==
    LET at == { i \in 1..(Len(s) - 1) : SubSeq(s, i, i + 1) = ", " }
    IN  IF at = {} THEN <<s>>
        ELSE LET i == CHOOSE x \in at : \A y \in at : x <= y
             IN  <<SubSeq(s, 1, i - 1)>> \o SplitCommaSpace(SubSeq(s, i + 2, Len(s)))

MissingPrefix == "Mandatory fields missing: "

\* the fields a "Mandatory fields missing: a, b." reasoning names
ReasonFields(reasoning) ==
    SplitCommaSpace(SubSeq(reasoning, Len(MissingPrefix) + 1, Len(reasoning) - 1))

\* s contains w, letter case aside; w is in lower case
ContainsIgnoringCase(s, w) ==
    \E i \in 0..(Len(s) - Len(w)) :
        \A k \in 1..Len(w) : LowerChar(Char(s, i + k)) = Char(w, k)

RECURSIVE DropLeadingZeros(_)
DropLeadingZeros(s) ==
    IF Len(s) > 0 /\ Char(s, 1) = "0" THEN DropLeadingZeros(SubSeq(s, 2, Len(s))) ELSE s

RECURSIVE DigitsLess(_, _)
\* a < b for two runs of digits of one length, read as numbers
DigitsLess(a, b) ==
    IF Len(a) = 0 THEN FALSE
    ELSE IF Char(a, 1) # Char(b, 1) THEN DigitOf(Char(a, 1)) < DigitOf(Char(b, 1))
    ELSE DigitsLess(SubSeq(a, 2, Len(a)), SubSeq(b, 2, Len(b)))

\* the decimal ip.fp is below the decimal bip.bfp, in exact arithmetic
DecimalBelow(ip, fp, bip, bfp) ==
    LET a == DropLeadingZeros(ip)
        b == DropLeadingZeros(bip)
    IN  \/ Len(a) < Len(b)
        \/ Len(a) = Len(b) /\ DigitsLess(a, b)
        \/ a = b /\ DecimalLess(fp, bfp)

\* the first contiguous numeric substring of s once its commas are removed is
\* below the decimal bip.bfp; FALSE when s has no digit
FirstNumberBelow(s, bip, bfp) ==
    LET t == RemoveCommas(s)
    IN  \E i \in 1..Len(t) :
          /\ IsDigitChar(Char(t, i))
          /\ \A h \in 1..(i - 1) : ~IsDigitChar(Char(t, h))
          /\ \E j \in i..Len(t) :
               /\ \A h \in i..j : IsDigitChar(Char(t, h))
               /\ (j = Len(t) \/ ~IsDigitChar(Char(t, j + 1)))
               /\ IF j + 2 <= Len(t) /\ Char(t, j + 1) = "." /\ IsDigitChar(Char(t, j + 2))
                  THEN \E k \in (j + 2)..Len(t) :
                        /\ \A h \in (j + 2)..k : IsDigitChar(Char(t, h))
                        /\ (k = Len(t) \/ ~IsDigitChar(Char(t, k + 1)))
                        /\ DecimalBelow(SubSeq(t, i, j), SubSeq(t, j + 2, k), bip, bfp)
                  ELSE DecimalBelow(SubSeq(t, i, j), "", bip, bfp)

\* the damage is below the decimal bip.bfp
DamageBelow(dmg, bip, bfp) ==
    CASE dmg = Null -> FALSE
      [] dmg.t = "num" -> dmg.n < 25000
      [] OTHER -> FirstNumberBelow(dmg.s, bip, bfp)

\* the oracle gave agent a no usable answer: unknown, or not consulted
NoUsableAnswer(a) == answers[a] \in {"unknown", NotAsked}

Damage == GetField(extracted, "Asset Details", "Estimated Damage")
Description == GetField(extracted, "Incident Information", "Description")
ClaimType == GetField(extracted, "Other Mandatory Fields", "Claim Type")

---------------------------------------------------------------------------
(* The claims *)

\* C1: decide_route returns the route of the first matching rule in the
\* order investigation, missing fields, injury, fast-track, else manual
\* review; so investigation alone decides when it is set, injury outranks
\* fast-track, and Fast-track needs all three earlier rules to fail.
C1_RoutePrecedence ==
    pc = "done" =>
        LET r == output.recommendedRoute
        IN  /\ investigation => r = "Investigation Flag"
            /\ (~investigation /\ Len(missing) > 0) => r = "Manual review"
            /\ (~investigation /\ Len(missing) = 0 /\ injury) => r = "Specialist Queue"
            /\ (~investigation /\ Len(missing) = 0 /\ ~injury /\ fasttrack)
                    => r = "Fast-track"
            /\ (~investigation /\ Len(missing) = 0 /\ ~injury /\ ~fasttrack)
                    => r = "Manual review"
            /\ r = "Fast-track" => (~investigation /\ Len(missing) = 0 /\ ~injury)

\* an injury claim eligible for fast-track went to the specialist queue
C1_Witness ==
    /\ pc = "done"
    /\ ~investigation /\ Len(missing) = 0 /\ injury /\ fasttrack
    /\ output.recommendedRoute = "Specialist Queue"

\* C2: in a run of process_fnol with the investigation signal false and a
\* non-empty missing-field list, the route is Manual review and the reasoning
\* names exactly the fields of the list, each once, separated by ", ", in
\* canonical order, every one of them blank in the record.
C2_MissingFieldsManualReview ==
    (pc = "done" /\ ~investigation /\ Len(missing) > 0) =>
        /\ output.recommendedRoute = "Manual review"
        /\ output.reasoning # "No routing rule matched confidently."
        /\ SubSeq(output.reasoning, 1, Len(MissingPrefix)) = MissingPrefix
        /\ ReasonFields(output.reasoning) = output.missingFields
        /\ IsBlankFieldList(ReasonFields(output.reasoning), output.extractedFields)

\* a run with two missing fields and the injury signal set
C2_Witness ==
    /\ pc = "done"
    /\ ~investigation /\ injury
    /\ Len(missing) >= 2
    /\ output.recommendedRoute = "Manual review"

\* C3: normalizing a record whose Policy Number is the caption "POLICY NUMBER"
\* gives null, and normalizing one whose Policy Number is "POL-88271" leaves
\* the value as it is.
C3_LabelStrippedValueKept ==
    (pc = "completeness" /\ DOMAIN input = {"Policy Information"}) =>
        LET before == input["Policy Information"].d["Policy Number"]
            after == extracted["Policy Information"].d["Policy Number"]
        IN  /\ before = Str("POLICY NUMBER") => after = Null
            /\ before = Str("POL-88271") => after = Str("POL-88271")

\* C4: normalize_extracted is idempotent: the second normalization returns
\* the record of the first, with the sections and field names of the input.
C4_NormalizeIdempotent ==
    pc = "renormalized" =>
        /\ extracted = once
        /\ DOMAIN extracted = DOMAIN input
        /\ \A s \in DOMAIN input :
             IsDict(input[s]) =>
                /\ IsDict(extracted[s])
                /\ DOMAIN extracted[s].d = DOMAIN input[s].d

\* a record normalized twice whose first normalization removed one leaf and
\* kept another, a string
C4_Witness ==
    /\ pc = "renormalized"
    /\ once # input
    /\ \E s \in DOMAIN once :
         /\ IsDict(once[s])
         /\ \E f \in DOMAIN once[s].d : IsStr(once[s].d[f])

\* C5: whatever the oracle answers, completeness_agent returns exactly the
\* mandatory fields whose value is null or a blank string, in canonical
\* order; the list is empty iff all sixteen fields are non-null and non-blank.
C5_CompletenessDeterministic ==
    (pc = "investigation" /\ answers["completeness"] \in {"yes", "no", "unknown"}) =>
        /\ IsBlankFieldList(missing, extracted)
        /\ (Len(missing) = 0) <=> (\A f \in FieldSet : ~IsBlankLeaf(LeafOf(extracted, f)))

\* the oracle said all is present while two fields are missing
C5_Witness ==
    /\ pc = "investigation"
    /\ answers["completeness"] = "yes"
    /\ Len(missing) = 2

\* C6 as stated: with no usable oracle answer, fasttrack_agent returns true
\* iff the damage value is below 25000, a string by its first contiguous
\* numeric substring after removing the commas.
C6_BelowThresholdExactly ==
    (pc = "route" /\ NoUsableAnswer("fasttrack")) =>
        fasttrack = DamageBelow(Damage, "25000", "")

\* C6 amended: with no usable oracle answer, fasttrack_agent returns true iff
\* the damage value, a string's first numeric substring being converted to
\* the nearest double, is below 25000: that is, iff the substring's decimal
\* value is below 25000 - 2^-39.  "24999" and "5,000 USD" give true, "25000"
\* and "$25,000.00" give false.
C6_BelowThresholdAsDouble ==
    (pc = "route" /\ NoUsableAnswer("fasttrack")) =>
        /\ fasttrack = DamageBelow(Damage, "24999", HalfUlpBelowOne)
        /\ Damage = Str("24999") => fasttrack
        /\ Damage = Str("25000") => ~fasttrack
        /\ Damage = Str("$25,000.00") => ~fasttrack
        /\ Damage = Str("5,000 USD") => fasttrack

\* the oracle was asked about "5,000 USD", answered neither yes nor no, and
\* the fallback made the claim eligible
C6_Witness ==
    /\ pc = "route"
    /\ Damage = Str("5,000 USD")
    /\ answers["fasttrack"] = "unknown"
    /\ fasttrack

\* the route the claims' precedence gives to a record and three signals
RuleRoute(rec, inv, inj, fast) ==
    IF inv THEN "Investigation Flag"
    ELSE IF \E f \in FieldSet : IsBlankLeaf(LeafOf(rec, f)) THEN "Manual review"
    ELSE IF inj THEN "Specialist Queue"
    ELSE IF fast THEN "Fast-track"
    ELSE "Manual review"

\* the three deterministic rules, on the normalized record
KeywordRule(rec) ==
    LET d == LeafOf(rec, "Description")
    IN  /\ d # Null
        /\ \E w \in {"fraud", "inconsistent", "staged"} : ContainsIgnoringCase(d.s, w)

InjuryRule(rec) ==
    LET c == LeafOf(rec, "Claim Type")
    IN  c # Null /\ ContainsIgnoringCase(c.s, "injury")

DamageRule(rec) == DamageBelow(LeafOf(rec, "Estimated Damage"), "24999", HalfUlpBelowOne)

\* C7: when the oracle answers unknown to every query, investigation is true
\* iff the Description contains "fraud", "inconsistent" or "staged" whatever
\* the case, injury iff Claim Type contains "injury" whatever the case,
\* fast-track iff the parsed damage is below 25000, and the decision record
\* is the one these rules and the precedence give to the normalized record.
C7_UnknownOracleIsRuleBased ==
    (pc = "done" /\ \A a \in Agents : NoUsableAnswer(a)) =>
        /\ investigation = KeywordRule(once)
        /\ injury = InjuryRule(once)
        /\ fasttrack = DamageRule(once)
        /\ output.extractedFields = once
        /\ IsBlankFieldList(output.missingFields, once)
        /\ output.recommendedRoute =
              RuleRoute(once, KeywordRule(once), InjuryRule(once), DamageRule(once))

\* a finished run in which the oracle answered unknown three times and the
\* keyword "staged" of a capitalised description set the investigation signal
C7_Witness ==
    /\ pc = "done"
    /\ \A a \in Agents : NoUsableAnswer(a)
    /\ Cardinality({ a \in Agents : answers[a] = "unknown" }) >= 3
    /\ Description = Str("Staged crash")
    /\ investigation

\* C8: an oracle call that raises inside an agent is not propagated: the
\* agent returns its fallback, is not called again, and process_fnol emits
\* a complete decision record.
C8_OracleFailureAbsorbed ==
    /\ \A a \in Agents : calls[a] <= 1
    /\ (\E a \in Agents : answers[a] = "raise") => (pc # "aborted" /\ err = "none")

\* the first occurrences, as the claim words them
HasOpeningBrace(text) == \E i \in 1..Len(text) : Char(text, i) = "{"
HasClosingBrace(text) == \E i \in 1..Len(text) : Char(text, i) = "}"
FirstOpeningBrace(text) ==
    CHOOSE i \in 1..Len(text) :
        Char(text, i) = "{" /\ \A h \in 1..(i - 1) : Char(text, h) # "{"
LastClosingBrace(text) ==
    CHOOSE i \in 1..Len(text) :
        Char(text, i) = "}" /\ \A h \in (i + 1)..Len(text) : Char(text, h) # "}"

\* C9: extract_json fails with "No JSON found" on a text without an opening
\* brace; else returns the object a strict parse at the first opening brace
\* finds, whatever is before and after it; else fails with "No closing brace"
\* on a text without one; else returns the slice from the first opening
\* brace to the last closing brace.  The run then holds a valid object or
\* has aborted with an error and no record.
C9_ResponseRepair ==
    pc # "repair" =>
        /\ IF ~HasOpeningBrace(raw)
           THEN pc = "aborted" /\ err = NoJsonFound
           ELSE LET first == FirstOpeningBrace(raw)
                    after == ParseObject(raw, first)
                IN  IF after # 0
                    THEN /\ pc \in {"loads", "normalize"}
                         /\ json_text = Dumps(SubSeq(raw, first, after - 1))
                         /\ LoadsOk(json_text)
                    ELSE IF ~HasClosingBrace(raw)
                    THEN pc = "aborted" /\ err = NoClosingBrace
                    ELSE /\ pc \in {"loads", "normalize", "aborted"}
                         /\ json_text =
                              (IF LastClosingBrace(raw) < first THEN ""
                               ELSE SubSeq(raw, first, LastClosingBrace(raw)))
                         /\ pc = "aborted" => err = "JSONDecodeError"
        /\ pc = "normalize" => (err = "none" /\ extracted # NoRecord /\ LoadsOk(json_text))
        /\ pc = "aborted" => (err # "none" /\ extracted = NoRecord /\ output = NoOutput)

\* an object between prose and a stray closing brace was parsed
C9_Witness ==
    /\ pc = "normalize"
    /\ raw = "x{} }"
    /\ json_text = "{}"

\* C10 as stated: an absent Description, Claim Type or Estimated Damage gives
\* a false signal, whatever the oracle answers (read on the runs in which the
\* agent returned).
C10_AbsentGivesFalse ==
    /\ (pc \in {"injury", "fasttrack", "route", "done"} /\ Description = Null)
            => ~investigation
    /\ (pc \in {"fasttrack", "route", "done"} /\ ClaimType = Null) => ~injury
    /\ (pc \in {"route", "done"} /\ Damage = Null) => ~fasttrack

\* C10 amended: an absent Description gives investigation false and an absent
\* Estimated Damage gives fast-track false, the oracle not being asked.  An
\* absent Claim Type gives injury false when the Description is absent too
\* (the oracle is not asked) or the oracle answers no or unknown; with a
\* Description present the oracle is asked and its yes makes injury true.
C10_AbsentGivesFalseUnlessOracleYes ==
    /\ (pc \in {"injury", "fasttrack", "route", "done"} /\ Description = Null)
            => (~investigation /\ answers["investigation"] = NotAsked)
    /\ (pc \in {"route", "done"} /\ Damage = Null)
            => (~fasttrack /\ answers["fasttrack"] = NotAsked)
    /\ (pc \in {"fasttrack", "route", "done"} /\ ClaimType = Null) =>
            IF Description = Null
            THEN ~injury /\ answers["injury"] = NotAsked
            ELSE /\ answers["injury"] \in {"yes", "no", "unknown"}
                 /\ injury = (answers["injury"] = "yes")

\* a run without a Claim Type whose description made the oracle say yes
C10_Witness ==
    /\ pc = "done"
    /\ ClaimType = Null
    /\ Description # Null
    /\ answers["injury"] = "yes"
    /\ injury

============================================================================
